---- MODULE Spec2Model ----
(***************************************************************************)
(* A model of the Boggle server of src/Back.py: the word list, the         *)
(* BoggleGame class (board, path validation, word extraction, scoring) and *)
(* the three request handlers that work on the process-wide `games` map.   *)
(*                                                                         *)
(* Strings that the program indexes or builds letter by letter (words,     *)
(* lines of the word list) are sequences of one-character strings; ids and *)
(* messages, which it only compares, are strings.  A position is a pair    *)
(* <<r, c>>, a path a sequence of positions, a board a function            *)
(* [0..3 -> [0..3 -> letter]] as the list of lists indexed from 0.         *)
(***************************************************************************)
EXTENDS Integers, Sequences, FiniteSets, TLC

VARIABLES
    VALID_WORDS,   \* the module-level word set (line 33)
    games,         \* the module-level dict game_id -> BoggleGame (line 11)
    detached,      \* games no longer in the dict that a running handler still
                   \* holds in its local `game`
    thread         \* the request each handler thread holds, and how far it got

vars == <<VALID_WORDS, games, detached, thread>>

----------------------------------------------------------------------------
(* Bounds of the model *)

\* new_game draws ids from MinGameId .. MinGameId + NumGameIds - 1
NumGameIds == 2
\* the longest path a client submits along the snake
MaxPathLen == 9
\* the snake paths start at one of the first MaxStart cells of the snake
MaxStart == 2
\* handler threads of the concurrent specification
NumThreads == 2
\* the longest path of the specification of the path validator alone
MaxAnyLen == 3

----------------------------------------------------------------------------
(* Constants of the program *)

BoardSize == 4
MinPathLen == 3
MinWordLen == 3
MinGameId == 1000

InvalidPathMsg == "Invalid path - letters must be directly connected"
WordTooShortMsg == "Word must be at least 3 letters"
NotAWordMsg == "Not a valid English word"
AlreadyFoundMsg == "Word already found"
MissingMsg == "Missing game_id or positions"
InvalidGameIdMsg == "Invalid game ID"

ascii_uppercase ==
    <<"A", "B", "C", "D", "E", "F", "G", "H", "I", "J", "K", "L", "M",
      "N", "O", "P", "Q", "R", "S", "T", "U", "V", "W", "X", "Y", "Z">>

ascii_lowercase ==
    <<"a", "b", "c", "d", "e", "f", "g", "h", "i", "j", "k", "l", "m",
      "n", "o", "p", "q", "r", "s", "t", "u", "v", "w", "x", "y", "z">>

Whitespace == {" ", "\n", "\t", "\r"}

----------------------------------------------------------------------------
(* str methods *)

\* the lower-case letter of each upper-case one
lower_map ==
    [ch \in {ascii_uppercase[i] : i \in DOMAIN ascii_uppercase} |->
        ascii_lowercase[CHOOSE i \in DOMAIN ascii_uppercase : ascii_uppercase[i] = ch]]

\* ch.lower() of one character
lower_char(ch) == IF ch \in DOMAIN lower_map THEN lower_map[ch] ELSE ch

\* s.lower()
lower(s) == [i \in DOMAIN s |-> lower_char(s[i])]

RECURSIVE lstrip(_)
lstrip(s) ==
    IF s # <<>> /\ Head(s) \in Whitespace THEN lstrip(Tail(s)) ELSE s

RECURSIVE rstrip(_)
rstrip(s) ==
    IF s # <<>> /\ s[Len(s)] \in Whitespace
    THEN rstrip(SubSeq(s, 1, Len(s) - 1))
    ELSE s

\* s.strip()
strip(s) == rstrip(lstrip(s))

abs(n) == IF n < 0 THEN -n ELSE n

----------------------------------------------------------------------------
(* load_word_list: a file is [exists |-> FALSE] or                         *)
(* [exists |-> TRUE, lines |-> <<line, ...>>]                              *)

RECURSIVE word_set_of(_)
word_set_of(lines) ==
    IF lines = <<>> THEN {}
    ELSE LET word == lower(strip(Head(lines)))
         IN  IF word # <<>>
             THEN {word} \cup word_set_of(Tail(lines))
             ELSE word_set_of(Tail(lines))

load_word_list(file) ==
    IF file.exists THEN word_set_of(file.lines) ELSE {}

----------------------------------------------------------------------------
(* class BoggleGame; a game is [game_id, board, found_words, score] *)

Cells == 0 .. (BoardSize - 1)

\* 0 <= r < 4 and 0 <= c < 4
in_bounds(r, c) == 0 <= r /\ r < BoardSize /\ 0 <= c /\ c < BoardSize

\* is_valid_path with `dr > 1 and dc > 1` for the adjacency test
is_valid_path_and(positions) ==
    IF Len(positions) < MinPathLen THEN FALSE
    ELSE IF Len(positions) # Cardinality({positions[i] : i \in DOMAIN positions})
    THEN FALSE
    ELSE IF \E i \in DOMAIN positions :
                ~ in_bounds(positions[i][1], positions[i][2])
    THEN FALSE
    ELSE IF \E i \in 1 .. (Len(positions) - 1) :
                LET dr == abs(positions[i][1] - positions[i + 1][1])
                    dc == abs(positions[i][2] - positions[i + 1][2])
                IN  dr > 1 /\ dc > 1
    THEN FALSE
    ELSE TRUE

\* is_valid_path without the loop that checks the bounds
is_valid_path_nobounds(positions) ==
    IF Len(positions) < MinPathLen THEN FALSE
    ELSE IF Len(positions) # Cardinality({positions[i] : i \in DOMAIN positions})
    THEN FALSE
    ELSE IF \E i \in 1 .. (Len(positions) - 1) :
                LET dr == abs(positions[i][1] - positions[i + 1][1])
                    dc == abs(positions[i][2] - positions[i + 1][2])
                IN  dr > 1 \/ dc > 1
    THEN FALSE
    ELSE TRUE

\* is_valid_path with `len(positions) < 2` for its first test
is_valid_path_short(positions) ==
    IF Len(positions) < MinPathLen - 1 THEN FALSE
    ELSE IF Len(positions) # Cardinality({positions[i] : i \in DOMAIN positions})
    THEN FALSE
    ELSE IF \E i \in DOMAIN positions :
                ~ in_bounds(positions[i][1], positions[i][2])
    THEN FALSE
    ELSE IF \E i \in 1 .. (Len(positions) - 1) :
                LET dr == abs(positions[i][1] - positions[i + 1][1])
                    dc == abs(positions[i][2] - positions[i + 1][2])
                IN  dr > 1 \/ dc > 1
    THEN FALSE
    ELSE TRUE

is_valid_path(positions) ==
    IF Len(positions) < MinPathLen THEN FALSE
    ELSE IF Len(positions) # Cardinality({positions[i] : i \in DOMAIN positions})
    THEN FALSE
    ELSE IF \E i \in DOMAIN positions :
                ~ in_bounds(positions[i][1], positions[i][2])
    THEN FALSE
    ELSE IF \E i \in 1 .. (Len(positions) - 1) :
                LET dr == abs(positions[i][1] - positions[i + 1][1])
                    dc == abs(positions[i][2] - positions[i + 1][2])
                IN  dr > 1 \/ dc > 1
    THEN FALSE
    ELSE TRUE

\* get_word_from_path with `else: break`: the word ends at the first
\* position that is off the board
RECURSIVE get_word_from_path_break(_, _)
get_word_from_path_break(board, positions) ==
    IF positions = <<>> THEN <<>>
    ELSE LET r == Head(positions)[1]
             c == Head(positions)[2]
         IN  IF in_bounds(r, c)
             THEN <<lower_char(board[r][c])>>
                      \o get_word_from_path_break(board, Tail(positions))
             ELSE <<>>

RECURSIVE get_word_from_path(_, _)
get_word_from_path(board, positions) ==
    IF positions = <<>> THEN <<>>
    ELSE LET r == Head(positions)[1]
             c == Head(positions)[2]
             rest == get_word_from_path(board, Tail(positions))
         IN  IF in_bounds(r, c)
             THEN <<lower_char(board[r][c])>> \o rest
             ELSE rest

\* is_valid_word that lets every word pass when no word list was loaded
is_valid_word_open(word) == VALID_WORDS = {} \/ lower(word) \in VALID_WORDS

is_valid_word(word) == lower(word) \in VALID_WORDS

\* word in self.found_words
in_list(word, list) == \E i \in DOMAIN list : list[i] = word

\* validate_word without the test of found_words
validate_word_nodup(game, positions) ==
    LET word == get_word_from_path(game.board, positions)
    IN  IF ~ is_valid_path(positions)
        THEN <<FALSE, InvalidPathMsg, word>>
        ELSE IF Len(word) < MinWordLen
        THEN <<FALSE, WordTooShortMsg, word>>
        ELSE IF ~ is_valid_word(word)
        THEN <<FALSE, NotAWordMsg, word>>
        ELSE <<TRUE, word, word>>

\* validate_word with the test of found_words moved to the front
validate_word_dup_first(game, positions) ==
    LET word == get_word_from_path(game.board, positions)
    IN  IF in_list(word, game.found_words)
        THEN <<FALSE, AlreadyFoundMsg, word>>
        ELSE IF ~ is_valid_path(positions)
        THEN <<FALSE, InvalidPathMsg, word>>
        ELSE IF Len(word) < MinWordLen
        THEN <<FALSE, WordTooShortMsg, word>>
        ELSE IF ~ is_valid_word(word)
        THEN <<FALSE, NotAWordMsg, word>>
        ELSE <<TRUE, word, word>>

\* validate_word with found_words an attribute of the class, one list that
\* the games share: the word is looked up in the lists of all games
validate_word_shared(game, positions) ==
    LET word == get_word_from_path(game.board, positions)
    IN  IF ~ is_valid_path(positions)
        THEN <<FALSE, InvalidPathMsg, word>>
        ELSE IF Len(word) < MinWordLen
        THEN <<FALSE, WordTooShortMsg, word>>
        ELSE IF ~ is_valid_word(word)
        THEN <<FALSE, NotAWordMsg, word>>
        ELSE IF \E g \in DOMAIN games : in_list(word, games[g].found_words)
        THEN <<FALSE, AlreadyFoundMsg, word>>
        ELSE <<TRUE, word, word>>

\* validate_word without the test of the word list
validate_word_nodict(game, positions) ==
    LET word == get_word_from_path(game.board, positions)
    IN  IF ~ is_valid_path(positions)
        THEN <<FALSE, InvalidPathMsg, word>>
        ELSE IF Len(word) < MinWordLen
        THEN <<FALSE, WordTooShortMsg, word>>
        ELSE IF in_list(word, game.found_words)
        THEN <<FALSE, AlreadyFoundMsg, word>>
        ELSE <<TRUE, word, word>>

\* the tuple (is_valid, result, attempted_word)
validate_word(game, positions) ==
    LET word == get_word_from_path(game.board, positions)
    IN  IF ~ is_valid_path(positions)
        THEN <<FALSE, InvalidPathMsg, word>>
        ELSE IF Len(word) < MinWordLen
        THEN <<FALSE, WordTooShortMsg, word>>
        ELSE IF ~ is_valid_word(word)
        THEN <<FALSE, NotAWordMsg, word>>
        ELSE IF in_list(word, game.found_words)
        THEN <<FALSE, AlreadyFoundMsg, word>>
        ELSE <<TRUE, word, word>>

\* the chain with `length < 4` for its first test
points_of_lt(length) ==
    IF length < 4 THEN 1
    ELSE IF length = 5 THEN 2
    ELSE IF length = 6 THEN 3
    ELSE IF length = 7 THEN 5
    ELSE 11

\* the points of the if/elif chain of add_word
points_of(length) ==
    IF length <= 4 THEN 1
    ELSE IF length = 5 THEN 2
    ELSE IF length = 6 THEN 3
    ELSE IF length = 7 THEN 5
    ELSE 11

\* add_word with `self.score = points`
add_word_assign(game, word) ==
    LET points == points_of(Len(word))
    IN  [game |-> [game EXCEPT !.found_words = Append(@, word),
                               !.score = points],
         points |-> points]

\* add_word with `self.found_words.insert(0, word)`
add_word_front(game, word) ==
    LET points == points_of(Len(word))
    IN  [game |-> [game EXCEPT !.found_words = <<word>> \o @,
                               !.score = @ + points],
         points |-> points]

\* add_word with `self.found_words = [word]`
add_word_latest(game, word) ==
    LET points == points_of(Len(word))
    IN  [game |-> [game EXCEPT !.found_words = <<word>>,
                               !.score = @ + points],
         points |-> points]

\* add_word: the game afterwards and the points returned
add_word(game, word) ==
    LET points == points_of(Len(word))
    IN  [game |-> [game EXCEPT !.found_words = Append(@, word),
                               !.score = @ + points],
         points |-> points]

----------------------------------------------------------------------------
(* What the model draws from: boards, word lists, ids, paths *)

\* a board that generate_board can return: the letters repeat with period k
\* in reading order (k = 1: one letter everywhere, k = 16: all different)
PatternBoard(k) ==
    [r \in Cells |->
        [c \in Cells |-> ascii_uppercase[((r * BoardSize + c) % k) + 1]]]

BoardPeriods == {1, BoardSize * BoardSize}

\* generate_board drawing from string.ascii_lowercase
generate_board_lower ==
    {[r \in Cells |->
         [c \in Cells |-> ascii_lowercase[((r * BoardSize + c) % k) + 1]]] :
        k \in BoardPeriods}

\* the outcomes of generate_board that the model draws from
generate_board == {PatternBoard(k) : k \in BoardPeriods}

\* the j-th cell (from 1) of the snake that runs through the rows of the
\* board, left to right in the even rows and right to left in the odd ones
SnakeCell(j) ==
    LET r == (j - 1) \div BoardSize
        k == (j - 1) % BoardSize
    IN  <<r, IF r % 2 = 0 THEN k ELSE BoardSize - 1 - k>>

\* the n cells of the snake from its i-th
SnakeSub(i, n) == [k \in 1 .. n |-> SnakeCell(i + k - 1)]

SnakePaths == {SnakeSub(i, n) : i \in 1 .. MaxStart, n \in 0 .. MaxPathLen}

\* positions put into a snake path to break it: off the board on either
\* side, the far corner, the first cell
Probes == {<<-1, 0>>, <<0, BoardSize>>, <<BoardSize - 1, BoardSize - 1>>, <<0, 0>>}

Insert(p, k, x) == SubSeq(p, 1, k - 1) \o <<x>> \o SubSeq(p, k, Len(p))

ProbedPaths ==
    UNION {{Insert(p, k, x) : k \in 1 .. (Len(p) + 1), x \in Probes} :
              p \in {SnakeSub(1, MinPathLen - 1), SnakeSub(1, MinPathLen)}}

\* the paths a client submits
Paths == SnakePaths \cup ProbedPaths

\* the letters of board b along p as the board holds them (upper case)
RawLetters(b, p) == [i \in DOMAIN p |-> b[p[i][1]][p[i][2]]]

\* the word lists the model starts from: none (wordlist.txt is missing), or
\* one of three lines: a word of n letters in upper case, an empty line, a
\* word of n + 1 letters between spaces (n = 3, 5, ... up to MaxPathLen)
WordFile(b, n) ==
    [exists |-> TRUE,
     lines |-> << RawLetters(b, SnakeSub(1, n)) \o <<"\n">>,
                  <<"\n">>,
                  <<" ">> \o lower(RawLetters(b, SnakeSub(1, n + 1))) \o <<" ", "\n">> >>]

WordFiles ==
    {[exists |-> FALSE]} \cup
    {WordFile(b, n) :
        b \in generate_board,
        n \in {m \in MinWordLen .. MaxPathLen : (m - MinWordLen) % 2 = 0}}

\* str(random.randint(1000, 9999)), the draw cut to the first NumGameIds ids
GameIds == {ToString(n) : n \in MinGameId .. (MinGameId + NumGameIds - 1)}

\* the JSON body of a validate_word request: a dict that may lack either key
EmptyDict == << >>

ValidateBodies ==
    {[game_id |-> g, positions |-> p] : g \in GameIds, p \in Paths}
    \cup {[game_id |-> g] : g \in GameIds}
    \cup {[positions |-> p] : p \in {q \in SnakePaths : Len(q) = MinPathLen}}
    \cup {EmptyDict}

\* the query string of a game_state request
StateArgs == {[game_id |-> g] : g \in GameIds} \cup {EmptyDict}

Requests ==
    {[route |-> "new_game", data |-> EmptyDict]}
    \cup {[route |-> "validate_word", data |-> d] : d \in ValidateBodies}
    \cup {[route |-> "game_state", data |-> d] : d \in StateArgs}

----------------------------------------------------------------------------
(* The handlers.  A thread is idle, holds a request, or holds its response *)
(* until the client has it.                                                *)

Idle == [pc |-> "idle"]

Response(t, status, body) ==
    [pc |-> "response", route |-> t.route, data |-> t.data,
     status |-> status, body |-> body]

\* `not data.get(key)`: the key is missing or its value is empty
not_get(data, key) == key \notin DOMAIN data \/ Len(data[key]) = 0

\* the references to the game stored under game_id held by running handlers
Holders(game_id) ==
    {h \in DOMAIN thread :
        thread[h].pc = "checked" /\ thread[h].game = <<"games", game_id>>}

\* a request arrives
Receive(h) ==
    /\ thread[h].pc = "idle"
    /\ \E r \in Requests :
          thread' = [thread EXCEPT ![h] =
                        [pc |-> "request", route |-> r.route, data |-> r.data]]
    /\ UNCHANGED <<VALID_WORDS, games, detached>>

\* the client has the response
Return(h) ==
    /\ thread[h].pc = "response"
    /\ thread' = [thread EXCEPT ![h] = Idle]
    /\ UNCHANGED <<VALID_WORDS, games, detached>>

\* new_game with `game = games.setdefault(game_id, game)`: a game already
\* stored under the id drawn is kept
new_game_from_keep(h, ids) ==
    /\ thread[h].pc = "request"
    /\ thread[h].route = "new_game"
    /\ \E game_id \in ids, board \in generate_board :
          LET game == IF game_id \in DOMAIN games
                      THEN games[game_id]
                      ELSE [game_id |-> game_id, board |-> board,
                            found_words |-> << >>, score |-> 0]
          IN  /\ games' = [g \in DOMAIN games \cup {game_id} |->
                              IF g = game_id THEN game ELSE games[g]]
              /\ thread' = [thread EXCEPT ![h] =
                               Response(@, 200,
                                   [game_id |-> game_id, board |-> game.board,
                                    score |-> 0, found_words |-> << >>])]
    /\ UNCHANGED <<VALID_WORDS, detached>>

\* POST /api/new_game.  A game that the new one replaces in the dict lives on
\* as long as a handler holds it.
new_game_from(h, ids) ==
    /\ thread[h].pc = "request"
    /\ thread[h].route = "new_game"
    /\ \E game_id \in ids, board \in generate_board :
          LET game == [game_id |-> game_id, board |-> board,
                       found_words |-> << >>, score |-> 0]
              held == game_id \in DOMAIN games /\ Holders(game_id) # {}
              key == CHOOSE k \in 1 .. (Cardinality(DOMAIN detached) + 1) :
                         k \notin DOMAIN detached
          IN  /\ games' = [g \in DOMAIN games \cup {game_id} |->
                              IF g = game_id THEN game ELSE games[g]]
              /\ detached' =
                    IF held
                    THEN [k \in DOMAIN detached \cup {key} |->
                            IF k = key THEN games[game_id] ELSE detached[k]]
                    ELSE detached
              /\ thread' =
                    [t \in DOMAIN thread |->
                        IF t = h
                        THEN Response(thread[h], 200,
                                 [game_id |-> game_id, board |-> game.board,
                                  score |-> 0, found_words |-> << >>])
                        ELSE IF held /\ t \in Holders(game_id)
                        THEN [thread[t] EXCEPT !.game = <<"detached", key>>]
                        ELSE thread[t]]
    /\ UNCHANGED VALID_WORDS

api_new_game(h) == new_game_from(h, GameIds)

\* the body of a valid:true answer
ValidBody(word, points, game) ==
    [valid |-> TRUE, word |-> word, points |-> points,
     score |-> game.score, found_words |-> game.found_words]

InvalidBody(result, attempted_word) ==
    [valid |-> FALSE, error |-> result, attempted_word |-> attempted_word]

ErrorBody(msg) == [error |-> msg]

\* the handler with add_word called before `if is_valid`
answer_eager(game, v) ==
    LET added == add_word(game, v[3])
    IN  IF v[1]
        THEN [game |-> added.game,
              body |-> ValidBody(v[2], added.points, added.game)]
        ELSE [game |-> added.game, body |-> InvalidBody(v[2], v[3])]

\* the handler looking at found_words again before it adds the word
answer_recheck(game, v) ==
    IF v[1] /\ ~ in_list(v[2], game.found_words)
    THEN LET added == add_word(game, v[2])
         IN  [game |-> added.game,
              body |-> ValidBody(v[2], added.points, added.game)]
    ELSE IF v[1]
    THEN [game |-> game, body |-> InvalidBody(AlreadyFoundMsg, v[3])]
    ELSE [game |-> game, body |-> InvalidBody(v[2], v[3])]

\* lines 166-181: what the handler does with the tuple v that validate_word
\* returned: the game afterwards and the body of the answer
answer(game, v) ==
    IF v[1]
    THEN LET added == add_word(game, v[2])
         IN  [game |-> added.game,
              body |-> ValidBody(v[2], added.points, added.game)]
    ELSE [game |-> game, body |-> InvalidBody(v[2], v[3])]

\* POST /api/validate_word, the handler run without interruption
api_validate_word(h) ==
    /\ thread[h].pc = "request"
    /\ thread[h].route = "validate_word"
    /\ LET data == thread[h].data
       IN  IF not_get(data, "game_id") \/ not_get(data, "positions")
           THEN /\ thread' = [thread EXCEPT ![h] =
                                Response(@, 400, ErrorBody(MissingMsg))]
                /\ UNCHANGED games
           ELSE IF data.game_id \notin DOMAIN games
           THEN /\ thread' = [thread EXCEPT ![h] =
                                Response(@, 400, ErrorBody(InvalidGameIdMsg))]
                /\ UNCHANGED games
           ELSE LET game == games[data.game_id]
                    a == answer(game, validate_word(game, data.positions))
                IN  /\ games' = [games EXCEPT ![data.game_id] = a.game]
                    /\ thread' = [thread EXCEPT ![h] = Response(@, 200, a.body)]
    /\ UNCHANGED <<VALID_WORDS, detached>>

\* game_state with `games.setdefault(game_id, BoggleGame())`: an id that is
\* not in the dict gets a new game, which is returned
api_game_state_default(h) ==
    /\ thread[h].pc = "request"
    /\ thread[h].route = "game_state"
    /\ LET args == thread[h].data
       IN  IF not_get(args, "game_id")
           THEN /\ thread' = [thread EXCEPT ![h] =
                                Response(@, 400, ErrorBody(InvalidGameIdMsg))]
                /\ UNCHANGED games
           ELSE \E board \in generate_board :
                  LET game == IF args.game_id \in DOMAIN games
                              THEN games[args.game_id]
                              ELSE [game_id |-> args.game_id, board |-> board,
                                    found_words |-> << >>, score |-> 0]
                  IN  /\ games' = [g \in DOMAIN games \cup {args.game_id} |->
                                      IF g = args.game_id THEN game ELSE games[g]]
                      /\ thread' = [thread EXCEPT ![h] =
                            Response(@, 200,
                                [board |-> game.board, score |-> game.score,
                                 found_words |-> game.found_words])]
    /\ UNCHANGED <<VALID_WORDS, detached>>

\* game_state with `game = games.pop(game_id)`: the game is taken out of
\* the dict
api_game_state_pop(h) ==
    /\ thread[h].pc = "request"
    /\ thread[h].route = "game_state"
    /\ LET args == thread[h].data
       IN  IF not_get(args, "game_id") \/ args.game_id \notin DOMAIN games
           THEN /\ thread' = [thread EXCEPT ![h] =
                                Response(@, 400, ErrorBody(InvalidGameIdMsg))]
                /\ UNCHANGED games
           ELSE LET game == games[args.game_id]
                IN  /\ games' = [g \in DOMAIN games \ {args.game_id} |-> games[g]]
                    /\ thread' = [thread EXCEPT ![h] =
                          Response(@, 200,
                              [board |-> game.board, score |-> game.score,
                               found_words |-> game.found_words])]
    /\ UNCHANGED <<VALID_WORDS, detached>>

\* GET /api/game_state
api_game_state(h) ==
    /\ thread[h].pc = "request"
    /\ thread[h].route = "game_state"
    /\ LET args == thread[h].data
       IN  IF not_get(args, "game_id") \/ args.game_id \notin DOMAIN games
           THEN thread' = [thread EXCEPT ![h] =
                              Response(@, 400, ErrorBody(InvalidGameIdMsg))]
           ELSE LET game == games[args.game_id]
                IN  thread' = [thread EXCEPT ![h] =
                        Response(@, 200,
                            [board |-> game.board, score |-> game.score,
                             found_words |-> game.found_words])]
    /\ UNCHANGED <<VALID_WORDS, games, detached>>

----------------------------------------------------------------------------
(* The server with one request in progress at a time *)

Init ==
    /\ \E file \in WordFiles : VALID_WORDS = load_word_list(file)
    /\ games = << >>
    /\ detached = << >>
    /\ thread = [h \in {1} |-> Idle]

Next ==
    \/ \E h \in DOMAIN thread : Receive(h)
    \/ \E h \in DOMAIN thread : api_new_game(h)
    \/ \E h \in DOMAIN thread : api_validate_word(h)
    \/ \E h \in DOMAIN thread : api_game_state(h)
    \/ \E h \in DOMAIN thread : Return(h)

Spec == Init /\ [][Next]_vars

----------------------------------------------------------------------------
(* The server with several handler threads.  A thread may be interrupted    *)
(* between the check of a submitted path (lines 153-164) and the update of  *)
(* the game (lines 166-181); `game` is then the reference it holds.         *)

\* the game a reference stands for
Deref(ref) == IF ref[1] = "games" THEN games[ref[2]] ELSE detached[ref[2]]

\* the paths submitted in the concurrent specification: the two shortest
\* valid paths along the snake and one that is too short
ConcPaths ==
    {SnakeSub(1, MinPathLen), SnakeSub(2, MinPathLen), SnakeSub(1, MinPathLen - 1)}

\* new_game draws the first id only
ConcGameIds == {ToString(MinGameId)}

ConcRequests ==
    {[route |-> "new_game", data |-> EmptyDict]}
    \cup {[route |-> "validate_word", data |-> [game_id |-> g, positions |-> p]] :
            g \in ConcGameIds, p \in ConcPaths}
    \cup {[route |-> "game_state", data |-> [game_id |-> g]] : g \in ConcGameIds}

\* no word list, or the one of the shortest words of a board
ConcWordFiles ==
    {[exists |-> FALSE]} \cup {WordFile(b, MinWordLen) : b \in generate_board}

ReceiveConc(h) ==
    /\ thread[h].pc = "idle"
    /\ \E r \in ConcRequests :
          thread' = [thread EXCEPT ![h] =
                        [pc |-> "request", route |-> r.route, data |-> r.data]]
    /\ UNCHANGED <<VALID_WORDS, games, detached>>

\* lines 153-164 of the handler
validate_word_check(h) ==
    /\ thread[h].pc = "request"
    /\ thread[h].route = "validate_word"
    /\ LET data == thread[h].data
       IN  IF not_get(data, "game_id") \/ not_get(data, "positions")
           THEN thread' = [thread EXCEPT ![h] =
                              Response(@, 400, ErrorBody(MissingMsg))]
           ELSE IF data.game_id \notin DOMAIN games
           THEN thread' = [thread EXCEPT ![h] =
                              Response(@, 400, ErrorBody(InvalidGameIdMsg))]
           ELSE LET v == validate_word(games[data.game_id], data.positions)
                IN  thread' = [thread EXCEPT ![h] =
                        [pc |-> "checked", route |-> @.route, data |-> @.data,
                         game |-> <<"games", data.game_id>>,
                         is_valid |-> v[1], result |-> v[2],
                         attempted_word |-> v[3]]]
    /\ UNCHANGED <<VALID_WORDS, games, detached>>

\* lines 166-181 of the handler; a detached game that no other handler holds
\* is gone once this one returns
validate_word_update(h) ==
    /\ thread[h].pc = "checked"
    /\ LET t == thread[h]
           ref == t.game
           a == answer(Deref(ref), <<t.is_valid, t.result, t.attempted_word>>)
           others == {o \in DOMAIN thread \ {h} :
                        thread[o].pc = "checked" /\ thread[o].game = ref}
           keep == IF ref[1] = "detached" /\ others = {}
                   THEN DOMAIN detached \ {ref[2]}
                   ELSE DOMAIN detached
       IN  /\ games' = IF ref[1] = "games"
                       THEN [games EXCEPT ![ref[2]] = a.game]
                       ELSE games
           /\ detached' = [k \in keep |->
                             IF ref = <<"detached", k>> THEN a.game ELSE detached[k]]
           /\ thread' = [thread EXCEPT ![h] = Response(t, 200, a.body)]
    /\ UNCHANGED VALID_WORDS

InitConc ==
    /\ \E file \in ConcWordFiles : VALID_WORDS = load_word_list(file)
    /\ games = << >>
    /\ detached = << >>
    /\ thread = [h \in 1 .. NumThreads |-> Idle]

NextConc ==
    \/ \E h \in DOMAIN thread : ReceiveConc(h)
    \/ \E h \in DOMAIN thread : new_game_from(h, ConcGameIds)
    \/ \E h \in DOMAIN thread : validate_word_check(h)
    \/ \E h \in DOMAIN thread : validate_word_update(h)
    \/ \E h \in DOMAIN thread : api_game_state(h)
    \/ \E h \in DOMAIN thread : Return(h)

SpecConc == InitConc /\ [][NextConc]_vars

----------------------------------------------------------------------------
(* The server with several handler threads and two games: each client      *)
(* plays one of the games, new_game draws either id, and the steps of one   *)
(* handler fall between the steps of the others.                            *)

\* new_game draws one of the first two ids
PairGameIds == {ToString(MinGameId), ToString(MinGameId + 1)}

\* the game that the client served by thread h plays: the clients take the
\* two ids in turn
ClientGame(h) == ToString(MinGameId + (h % 2))

\* the shortest valid path along the snake and one that is too short
PairPaths == {SnakeSub(1, MinPathLen), SnakeSub(1, MinPathLen - 1)}

\* what the client of thread h sends: new_game, a path for its game,
\* game_state of its game
PairRequests(h) ==
    {[route |-> "new_game", data |-> EmptyDict],
     [route |-> "game_state", data |-> [game_id |-> ClientGame(h)]]}
    \cup {[route |-> "validate_word",
           data |-> [game_id |-> ClientGame(h), positions |-> p]] :
            p \in PairPaths}

ReceivePair(h) ==
    /\ thread[h].pc = "idle"
    /\ \E r \in PairRequests(h) :
          thread' = [thread EXCEPT ![h] =
                        [pc |-> "request", route |-> r.route, data |-> r.data]]
    /\ UNCHANGED <<VALID_WORDS, games, detached>>

\* the word list of the first words of the snake on the board of 16 letters
InitPair ==
    /\ VALID_WORDS =
          load_word_list(WordFile(PatternBoard(BoardSize * BoardSize), MinWordLen))
    /\ games = << >>
    /\ detached = << >>
    /\ thread = [h \in 1 .. NumThreads |-> Idle]

NextPair ==
    \/ \E h \in DOMAIN thread : ReceivePair(h)
    \/ \E h \in DOMAIN thread : new_game_from(h, PairGameIds)
    \/ \E h \in DOMAIN thread : validate_word_check(h)
    \/ \E h \in DOMAIN thread : validate_word_update(h)
    \/ \E h \in DOMAIN thread : api_game_state(h)
    \/ \E h \in DOMAIN thread : Return(h)

SpecPair == InitPair /\ [][NextPair]_vars

----------------------------------------------------------------------------
(* The path validator alone, on every path of at most MaxAnyLen positions  *)
(* whose rows and columns are on the board or one step off it; the path is *)
(* built position by position, as a client selects cells.                  *)

AnyCoord == (-1) .. BoardSize

\* what is_valid_path and validate_word say of a path on the game under
\* game_id
Verdict(game_id, positions) ==
    [pc |-> "verdict", game_id |-> game_id, positions |-> positions,
     valid |-> is_valid_path(positions),
     result |-> validate_word(games[game_id], positions)]

\* a new game on the board of 16 different letters; the word list holds the
\* first words of the snake on that board
InitPath ==
    /\ \E board \in {PatternBoard(BoardSize * BoardSize)} :
          /\ VALID_WORDS = load_word_list(WordFile(board, MinWordLen))
          /\ games = [g \in {ToString(MinGameId)} |->
                         [game_id |-> g, board |-> board,
                          found_words |-> << >>, score |-> 0]]
    /\ detached = << >>
    /\ thread = [h \in {1} |-> [pc |-> "start", game_id |-> ToString(MinGameId)]]

\* the empty path
start_path(h) ==
    /\ thread[h].pc = "start"
    /\ thread' = [thread EXCEPT ![h] = Verdict(@.game_id, << >>)]
    /\ UNCHANGED <<VALID_WORDS, games, detached>>

\* the path grows by one position and is checked again
check_path(h) ==
    /\ thread[h].pc = "verdict"
    /\ Len(thread[h].positions) < MaxAnyLen
    /\ \E r \in AnyCoord, c \in AnyCoord :
          thread' = [thread EXCEPT ![h] =
                        Verdict(@.game_id, Append(@.positions, <<r, c>>))]
    /\ UNCHANGED <<VALID_WORDS, games, detached>>

NextPath ==
    \/ \E h \in DOMAIN thread : start_path(h)
    \/ \E h \in DOMAIN thread : check_path(h)

SpecPath == InitPath /\ [][NextPath]_vars

----------------------------------------------------------------------------
(* The properties.  What follows is written from the stated behaviour, not  *)
(* from the definitions above: the table of points, the four rules of a     *)
(* path, and what is seen of a request and its answer.                      *)

\* the table of points: up to 4 letters 1, 5 -> 2, 6 -> 3, 7 -> 5, 8 or more 11
pointsFor(n) ==
    CASE n <= 4 -> 1
      [] n = 5 -> 2
      [] n = 6 -> 3
      [] n = 7 -> 5
      [] n >= 8 -> 11

RECURSIVE SumPoints(_)
SumPoints(words) ==
    IF words = << >> THEN 0
    ELSE pointsFor(Len(Head(words))) + SumPoints(Tail(words))

Occurrences(word, list) == Cardinality({i \in DOMAIN list : list[i] = word})

\* the four rules of a path
LongEnough(p) == Len(p) >= 3
NoRevisit(p) == \A i, j \in DOMAIN p : i < j => p[i] # p[j]
OnBoard(p) == \A i \in DOMAIN p : p[i][1] \in 0 .. 3 /\ p[i][2] \in 0 .. 3
StepsAdjacent(p) ==
    \A i \in DOMAIN p :
        (i + 1) \in DOMAIN p =>
            /\ (p[i + 1][1] - p[i][1]) \in {-1, 0, 1}
            /\ (p[i + 1][2] - p[i][2]) \in {-1, 0, 1}

FourRules(p) == LongEnough(p) /\ NoRevisit(p) /\ OnBoard(p) /\ StepsAdjacent(p)

\* the first rule, in the order length, duplicates, bounds, adjacency, that
\* a path fails
FirstFailedRule(p) ==
    IF ~ LongEnough(p) THEN "TooShort"
    ELSE IF ~ NoRevisit(p) THEN "RevisitedCell"
    ELSE IF ~ OnBoard(p) THEN "OutOfBounds"
    ELSE IF ~ StepsAdjacent(p) THEN "NotAdjacent"
    ELSE "None"

\* thread t holds the answer to a submitted path
Answered(t) == t.pc = "response" /\ t.route = "validate_word"

\* ... a valid:true answer
Accepted(t) ==
    Answered(t) /\ t.status = 200 /\ "valid" \in DOMAIN t.body /\ t.body.valid

\* ... a valid:false answer
Rejected(t) ==
    Answered(t) /\ t.status = 200 /\ "valid" \in DOMAIN t.body /\ ~ t.body.valid

\* in this step handler h answers the submitted path it held
Answers(h) ==
    /\ thread[h].pc = "request"
    /\ thread[h].route = "validate_word"
    /\ thread'[h].pc = "response"

\* the request of thread t names a game of the dict and carries a path
KnownGameAndPath(t) ==
    /\ "game_id" \in DOMAIN t.data
    /\ t.data.game_id \in DOMAIN games
    /\ "positions" \in DOMAIN t.data

\* C1: with one request handled at a time, the score of every game is the
\* sum of the points of the words of its found_words, whatever the order in
\* which they were accepted.
C1_ScoreIsSumOfPoints ==
    \A g \in DOMAIN games : games[g].score = SumPoints(games[g].found_words)

\* two games that found the same two words, of different points, in opposite
\* orders, and have the same score
C1_Witness ==
    \E g1, g2 \in DOMAIN games :
        LET f1 == games[g1].found_words
            f2 == games[g2].found_words
        IN  /\ Len(f1) = 2
            /\ f2 = <<f1[2], f1[1]>>
            /\ pointsFor(Len(f1[1])) # pointsFor(Len(f1[2]))
            /\ games[g1].score = games[g2].score
            /\ games[g1].score = pointsFor(Len(f1[1])) + pointsFor(Len(f1[2]))

\* C2: with one request handled at a time, no found_words list holds the
\* same word twice.
C2_NoDuplicateFoundWords ==
    \A g \in DOMAIN games :
        \A i, j \in DOMAIN games[g].found_words :
            i # j => games[g].found_words[i] # games[g].found_words[j]

\* a path is answered "Word already found" on a board where another valid
\* path of the client's spells the same word, and the word is in the list once
C2_Witness ==
    \E h \in DOMAIN thread :
        /\ Rejected(thread[h])
        /\ thread[h].body.error = AlreadyFoundMsg
        /\ LET game == games[thread[h].data.game_id]
               p == thread[h].data.positions
               word == thread[h].body.attempted_word
           IN  /\ Occurrences(word, game.found_words) = 1
               /\ \E q \in Paths :
                     /\ q # p
                     /\ FourRules(q)
                     /\ get_word_from_path(game.board, q) = word

\* C3: a word that is accepted was not in found_words before and is its
\* last element afterwards; a valid path whose word is already in
\* found_words (as after its first submission) is answered valid:false,
\* "Word already found", and score and found_words stay as they were.
C3_AcceptedOnceThenAlreadyFound ==
    [][\A h \in DOMAIN thread :
          Answers(h) =>
            /\ Accepted(thread'[h]) =>
                 LET g == thread[h].data.game_id
                     word == thread'[h].body.word
                 IN  /\ Occurrences(word, games[g].found_words) = 0
                     /\ games'[g].found_words = games[g].found_words \o <<word>>
            /\ ( /\ KnownGameAndPath(thread[h])
                 /\ FourRules(thread[h].data.positions)
                 /\ Occurrences(get_word_from_path(
                                   games[thread[h].data.game_id].board,
                                   thread[h].data.positions),
                               games[thread[h].data.game_id].found_words) > 0 )
                 => /\ Rejected(thread'[h])
                    /\ thread'[h].body.error = AlreadyFoundMsg
                    /\ games' = games
      ]_vars

\* the second submission of a path: "Word already found", and its word is
\* the last of found_words
C3_Witness ==
    \E h \in DOMAIN thread :
        /\ Rejected(thread[h])
        /\ thread[h].body.error = AlreadyFoundMsg
        /\ FourRules(thread[h].data.positions)
        /\ LET fw == games[thread[h].data.game_id].found_words
           IN  /\ Len(fw) = 2
               /\ fw[Len(fw)] = thread[h].body.attempted_word

\* C4: a submitted path that is answered valid:false leaves every game of
\* the dict (board, score, found_words) and the dict itself as they were.
C4_RejectionChangesNothing ==
    [][\A h \in DOMAIN thread :
          (Answers(h) /\ Rejected(thread'[h])) => games' = games
      ]_vars

\* a path answered "Not a valid English word" in a game that has a score
C4_Witness ==
    \E h \in DOMAIN thread :
        /\ Rejected(thread[h])
        /\ thread[h].body.error = NotAWordMsg
        /\ games[thread[h].data.game_id].score > 0
        /\ Len(thread[h].body.attempted_word) >= 3

\* C5: the geometry is checked first, then the word list: a path that
\* breaks one of the four rules is answered with the invalid-path reason,
\* also when its word is in the word list or in found_words; a valid path
\* whose word is not in the word list is answered "Not a valid English word".
C5_GeometryThenDictionary ==
    [][\A h \in DOMAIN thread :
          (Answers(h) /\ KnownGameAndPath(thread[h])
                      /\ thread[h].data.positions # << >>) =>
            LET p == thread[h].data.positions
                game == games[thread[h].data.game_id]
                word == get_word_from_path(game.board, p)
            IN  /\ ~ FourRules(p) =>
                      /\ Rejected(thread'[h])
                      /\ thread'[h].body.error = InvalidPathMsg
                /\ (FourRules(p) /\ word \notin VALID_WORDS) =>
                      /\ Rejected(thread'[h])
                      /\ thread'[h].body.error = NotAWordMsg
      ]_vars

\* an invalid path answered with the invalid-path reason whose word is in
\* the word list and in found_words
C5_Witness ==
    \E h \in DOMAIN thread :
        /\ Rejected(thread[h])
        /\ thread[h].body.error = InvalidPathMsg
        /\ thread[h].body.attempted_word \in VALID_WORDS
        /\ Occurrences(thread[h].body.attempted_word,
                       games[thread[h].data.game_id].found_words) = 1

\* in this step handler h, past the check of its path, updates the game
Updates(h) == thread[h].pc = "checked" /\ thread'[h].pc = "response"

\* C6: with handler threads that may be interrupted between the check
\* (validate_word) and the update (add_word), the update does not look at
\* found_words again: a handler whose check accepted the word appends it and
\* adds its points also when another handler has added the same word in
\* between, so that two such requests are both accepted.
C6_UpdateAfterCheckAlwaysAdds ==
    [][\A h \in DOMAIN thread :
          (Updates(h) /\ thread[h].is_valid) =>
            LET game == Deref(thread[h].game)
                word == thread[h].result
            IN  /\ Accepted(thread'[h])
                /\ thread'[h].body.word = word
                /\ thread'[h].body.found_words = game.found_words \o <<word>>
                /\ thread'[h].body.score = game.score + pointsFor(Len(word))
      ]_vars

\* two requests for the same word in the same game are both answered
\* valid:true; the word is twice in found_words and its points are counted
\* twice in the score
C6_Witness ==
    \E h1, h2 \in DOMAIN thread :
        /\ h1 # h2
        /\ Accepted(thread[h1])
        /\ Accepted(thread[h2])
        /\ thread[h1].data.game_id = thread[h2].data.game_id
        /\ thread[h1].body.word = thread[h2].body.word
        /\ LET game == games[thread[h1].data.game_id]
               word == thread[h1].body.word
           IN  /\ game.found_words = <<word, word>>
               /\ game.score = 2 * pointsFor(Len(word))
               /\ thread[h2].body.found_words = <<word, word>>
               /\ thread[h2].body.score = game.score

\* C7: a submitted path that names a game of the dict is answered
\* valid:true or valid:false, never with a client error; so is a path that
\* is too short, the empty one included.
C7_KnownGameNeverClientError ==
    \A h \in DOMAIN thread :
        (Answered(thread[h]) /\ KnownGameAndPath(thread[h])) =>
            /\ thread[h].status = 200
            /\ "valid" \in DOMAIN thread[h].body

\* C8: is_valid_path accepts a path exactly when the four rules hold: at
\* least 3 positions, no position twice, every row and column in 0..3, and
\* every step of at most 1 in the row and at most 1 in the column.
C8_ValidIffFourRules ==
    \A h \in DOMAIN thread :
        thread[h].pc = "verdict" =>
            (thread[h].valid <=> FourRules(thread[h].positions))

\* a path with the diagonal step (0,0) -> (1,1) is accepted
C8_Witness ==
    \E h \in DOMAIN thread :
        /\ thread[h].pc = "verdict"
        /\ thread[h].positions = << <<0, 0>>, <<1, 1>>, <<1, 2>> >>
        /\ thread[h].valid

\* C9 as stated: the reason tells which rule failed first, so two paths
\* that fail different first rules are given different reasons.
C9_ReasonNamesFirstFailedRule ==
    [][\A h \in DOMAIN thread :
          ( /\ thread[h].pc = "verdict"
            /\ thread'[h].pc = "verdict"
            /\ FirstFailedRule(thread[h].positions) # "None"
            /\ FirstFailedRule(thread'[h].positions) # "None"
            /\ FirstFailedRule(thread[h].positions)
                  # FirstFailedRule(thread'[h].positions) )
          => thread[h].result[2] # thread'[h].result[2]
      ]_vars

\* C9 as amended: a path that fails any of the four rules is rejected by
\* validate_word, and always with the one reason "Invalid path - letters
\* must be directly connected", whichever rule it fails first and however
\* many it fails; the attempted word is the one extracted from the path.
C9_EveryFailureSameReason ==
    \A h \in DOMAIN thread :
        (thread[h].pc = "verdict" /\ FirstFailedRule(thread[h].positions) # "None")
        => /\ thread[h].result[1] = FALSE
           /\ thread[h].result[2] = InvalidPathMsg
           /\ thread[h].valid = FALSE

\* a path that is off the board and not adjacent, failing the bounds rule
\* first, with the one reason
C9_Witness ==
    \E h \in DOMAIN thread :
        /\ thread[h].pc = "verdict"
        /\ FirstFailedRule(thread[h].positions) = "OutOfBounds"
        /\ ~ StepsAdjacent(thread[h].positions)
        /\ thread[h].result[2] = InvalidPathMsg

\* C10: an accepted word of n letters is worth 1 point for n <= 4, 2 for 5,
\* 3 for 6, 5 for 7 and 11 for 8 or more; the score grows by exactly that,
\* and the answer carries these points and the new score.
C10_PointsAreTheStepFunction ==
    [][\A h \in DOMAIN thread :
          (Answers(h) /\ Accepted(thread'[h])) =>
            LET g == thread[h].data.game_id
                body == thread'[h].body
            IN  /\ body.points = pointsFor(Len(body.word))
                /\ games'[g].score = games[g].score + pointsFor(Len(body.word))
                /\ body.score = games'[g].score
      ]_vars

\* a word of 8 letters accepted after one of 7: 11 points, score 16
C10_Witness ==
    \E h \in DOMAIN thread :
        /\ Accepted(thread[h])
        /\ Len(thread[h].body.word) = 8
        /\ thread[h].body.points = 11
        /\ thread[h].body.score = 16
        /\ games[thread[h].data.game_id].score = 16

\* in this step handler h answers the game_state request it held
AnswersState(h) ==
    /\ thread[h].pc = "request"
    /\ thread[h].route = "game_state"
    /\ thread'[h].pc = "response"

\* the request of thread t names a game id that is not in the dict
UnknownGame(t) ==
    /\ "game_id" \in DOMAIN t.data
    /\ t.data.game_id \notin DOMAIN games

\* C11: game_state and validate_word with a game id that is not in the dict
\* are answered with a client error (HTTP 400) whose body is an error message
\* only, never a board, a score or a found_words list; the message is
\* "Invalid game ID" for game_state and for every submitted non-empty path;
\* the dict gets no new entry and no game of the dict changes.
C11_UnknownGameIsClientError ==
    [][\A h \in DOMAIN thread :
          ((Answers(h) \/ AnswersState(h)) /\ UnknownGame(thread[h])) =>
            /\ thread'[h].status = 400
            /\ DOMAIN thread'[h].body = {"error"}
            /\ ( \/ AnswersState(h)
                 \/ ( /\ "positions" \in DOMAIN thread[h].data
                      /\ thread[h].data.positions # << >> ) )
                 => thread'[h].body.error = InvalidGameIdMsg
            /\ games' = games
      ]_vars

\* a valid path submitted for an id that is not in the dict, answered
\* "Invalid game ID", while the dict holds another game that has a score
C11_Witness ==
    \E h \in DOMAIN thread :
        /\ Answered(thread[h])
        /\ thread[h].status = 400
        /\ thread[h].body = [error |-> InvalidGameIdMsg]
        /\ thread[h].data.game_id \notin DOMAIN games
        /\ FourRules(thread[h].data.positions)
        /\ \E g \in DOMAIN games : games[g].score > 0

\* in this step handler h answers the new_game request it held
AnswersNewGame(h) ==
    /\ thread[h].pc = "request"
    /\ thread[h].route = "new_game"
    /\ thread'[h].pc = "response"

\* thread t holds the answer to a new_game request
Created(t) == t.pc = "response" /\ t.route = "new_game"

\* C12: new_game neither checks nor redraws an id that is already in the
\* dict: the request is answered 200 with that id, the game stored under it
\* is replaced, its found_words and score are gone, and the id names a game
\* with the board of the answer, score 0 and no found words; the dict has the
\* same ids as before.
C12_CollisionOverwrites ==
    [][\A h \in DOMAIN thread :
          (AnswersNewGame(h) /\ thread'[h].body.game_id \in DOMAIN games) =>
            LET id == thread'[h].body.game_id
            IN  /\ thread'[h].status = 200
                /\ DOMAIN games' = DOMAIN games
                /\ games'[id].board = thread'[h].body.board
                /\ games'[id].score = 0
                /\ games'[id].found_words = << >>
      ]_vars

\* one client holds the answer that its word was accepted in game g, with
\* the score it made; another holds the answer of new_game with the same
\* id g; the game under g has score 0 and no found words
C12_Witness ==
    \E h1, h2 \in DOMAIN thread :
        /\ Accepted(thread[h1])
        /\ thread[h1].body.score > 0
        /\ Created(thread[h2])
        /\ thread[h2].body.game_id = thread[h1].data.game_id
        /\ games[thread[h1].data.game_id].score = 0
        /\ games[thread[h1].data.game_id].found_words = << >>

\* list a is the beginning of list b
IsPrefix(a, b) == Len(a) <= Len(b) /\ \A i \in DOMAIN a : a[i] = b[i]

\* C13: in every step that is not a new_game answered with the id of the
\* game, the game is still in the dict, its score is at least what it was,
\* and its found_words list as it was is the beginning of the list as it is;
\* so, from the creation of a game to the next new_game with its id, the
\* score never goes down and every earlier list is a prefix of every later.
C13_ScoreAndFoundWordsOnlyGrow ==
    [][\A g \in DOMAIN games :
          (~ \E h \in DOMAIN thread :
                AnswersNewGame(h) /\ thread'[h].body.game_id = g) =>
            /\ g \in DOMAIN games'
            /\ games'[g].score >= games[g].score
            /\ IsPrefix(games[g].found_words, games'[g].found_words)
      ]_vars

\* a game_state answer for a game that has found two words, of 3 and 2
\* points in this order: the list and the score that the answer carries are
\* those of the game, as they were left by the answers to the two paths
C13_Witness ==
    \E h \in DOMAIN thread :
        /\ thread[h].pc = "response"
        /\ thread[h].route = "game_state"
        /\ thread[h].status = 200
        /\ Len(thread[h].body.found_words) = 2
        /\ pointsFor(Len(thread[h].body.found_words[1])) = 3
        /\ pointsFor(Len(thread[h].body.found_words[2])) = 2
        /\ thread[h].body.found_words = games[thread[h].data.game_id].found_words
        /\ thread[h].body.score = games[thread[h].data.game_id].score
        /\ thread[h].body.score = 5

\* the 26 capital letters
CapitalLetters ==
    {"A", "B", "C", "D", "E", "F", "G", "H", "I", "J", "K", "L", "M",
     "N", "O", "P", "Q", "R", "S", "T", "U", "V", "W", "X", "Y", "Z"}

\* 4 rows of 4 cells, one capital letter in each
WellFormedBoard(b) ==
    /\ DOMAIN b = 0 .. 3
    /\ \A r \in 0 .. 3 :
          /\ DOMAIN b[r] = 0 .. 3
          /\ \A c \in 0 .. 3 : b[r][c] \in CapitalLetters

\* C14: the board of every game of the dict has 4 rows of 4 cells with one
\* letter of A-Z in each; a step that is not a new_game answered with the id
\* of a game (so every answer to a submitted path, accepted or rejected, and
\* every game_state) leaves its board as it was; the game that new_game
\* stores, and its answer, have that board, score 0 and no found words.
C14_BoardFixedAndFreshStart ==
    [][ /\ \A g \in DOMAIN games' : WellFormedBoard(games'[g].board)
        /\ \A g \in DOMAIN games :
              (~ \E h \in DOMAIN thread :
                    AnswersNewGame(h) /\ thread'[h].body.game_id = g) =>
                /\ g \in DOMAIN games'
                /\ games'[g].board = games[g].board
        /\ \A h \in DOMAIN thread :
              AnswersNewGame(h) =>
                LET body == thread'[h].body
                IN  /\ games'[body.game_id].board = body.board
                    /\ games'[body.game_id].score = 0
                    /\ games'[body.game_id].found_words = << >>
                    /\ body.score = 0
                    /\ body.found_words = << >>
      ]_vars

\* a path has just been accepted in a game whose board has 16 different
\* letters, and the word of the answer is still read off the board of the
\* game along that path
C14_Witness ==
    \E h \in DOMAIN thread :
        /\ Accepted(thread[h])
        /\ LET board == games[thread[h].data.game_id].board
               p == thread[h].data.positions
           IN  /\ WellFormedBoard(board)
               /\ Cardinality({board[r][c] : r, c \in 0 .. 3}) = 16
               /\ Len(p) = Len(thread[h].body.word)
               /\ \A i \in DOMAIN p :
                     board[p[i][1]][p[i][2]] \in CapitalLetters
                     /\ lower_char(board[p[i][1]][p[i][2]]) = thread[h].body.word[i]

\* the small letter of a capital letter
SmallLetter(ch) ==
    CASE ch = "A" -> "a"
      [] ch = "B" -> "b"
      [] ch = "C" -> "c"
      [] ch = "D" -> "d"
      [] ch = "E" -> "e"
      [] ch = "F" -> "f"
      [] ch = "G" -> "g"
      [] ch = "H" -> "h"
      [] ch = "I" -> "i"
      [] ch = "J" -> "j"
      [] ch = "K" -> "k"
      [] ch = "L" -> "l"
      [] ch = "M" -> "m"
      [] ch = "N" -> "n"
      [] ch = "O" -> "o"
      [] ch = "P" -> "p"
      [] ch = "Q" -> "q"
      [] ch = "R" -> "r"
      [] ch = "S" -> "s"
      [] ch = "T" -> "t"
      [] ch = "U" -> "u"
      [] ch = "V" -> "v"
      [] ch = "W" -> "w"
      [] ch = "X" -> "x"
      [] ch = "Y" -> "y"
      [] ch = "Z" -> "z"

\* the positions of p that are on the board, in the order of p
OnBoardPositions(p) ==
    SelectSeq(p, LAMBDA x : x[1] \in 0 .. 3 /\ x[2] \in 0 .. 3)

\* the small letters of the board at the positions of p that are on it
LettersAlong(board, p) ==
    LET q == OnBoardPositions(p)
    IN  [i \in 1 .. Len(q) |-> SmallLetter(board[q[i][1]][q[i][2]])]

\* what a path is answered, told from the board and the found words of one
\* game and the word list: the flag, and the reason or the word
Outcome(board, found, words, p) ==
    LET word == LettersAlong(board, p)
    IN  IF ~ FourRules(p) THEN <<FALSE, InvalidPathMsg>>
        ELSE IF word \notin words THEN <<FALSE, NotAWordMsg>>
        ELSE IF Occurrences(word, found) > 0 THEN <<FALSE, AlreadyFoundMsg>>
        ELSE <<TRUE, word>>

\* in this step handler h, which works on a submitted path or on a
\* game_state request, moves on
Works(h) ==
    /\ thread[h].pc \in {"request", "checked"}
    /\ thread[h].route \in {"validate_word", "game_state"}
    /\ thread'[h].pc # thread[h].pc

\* in this step handler h checks the path it was sent
Checks(h) == thread[h].pc = "request" /\ thread'[h].pc = "checked"

\* C15: with handlers of several clients running in any interleaving, a
\* step of a handler that works on a submitted path or a game_state request
\* for game A leaves every game of the dict with another id (board, score,
\* found_words) as it was; what the check of a path for A finds is told by
\* A's board, A's found_words and the word list alone, and the answer that
\* follows is valid:true exactly when the check found the path valid.
C15_GamesAreIndependent ==
    [][\A h \in DOMAIN thread :
          Works(h) =>
            LET A == thread[h].data.game_id
            IN  /\ \A B \in DOMAIN games \ {A} :
                      B \in DOMAIN games' /\ games'[B] = games[B]
                /\ Checks(h) =>
                      <<thread'[h].is_valid, thread'[h].result>> =
                          Outcome(games[A].board, games[A].found_words,
                                  VALID_WORDS, thread[h].data.positions)
                /\ Updates(h) => (Accepted(thread'[h]) <=> thread[h].is_valid)
      ]_vars

\* two clients hold valid:true answers for the same path and word, each in
\* its own game; the two games have the same board, and each has the word
\* once and the points of one word
C15_Witness ==
    \E h1, h2 \in DOMAIN thread :
        /\ Accepted(thread[h1])
        /\ Accepted(thread[h2])
        /\ thread[h1].data.game_id # thread[h2].data.game_id
        /\ thread[h1].data.positions = thread[h2].data.positions
        /\ thread[h1].body.word = thread[h2].body.word
        /\ LET A == games[thread[h1].data.game_id]
               B == games[thread[h2].data.game_id]
           IN  /\ A.board = B.board
               /\ A.found_words = <<thread[h1].body.word>>
               /\ B.found_words = <<thread[h1].body.word>>
               /\ A.score = pointsFor(Len(thread[h1].body.word))
               /\ B.score = A.score

\* C16: when the word list is empty, as it is when wordlist.txt could not be
\* read, no submitted path is answered valid:true, and every game of the
\* dict has score 0 and no found words.
C16_EmptyWordListRejectsAll ==
    VALID_WORDS = {} =>
        /\ \A h \in DOMAIN thread : ~ Accepted(thread[h])
        /\ \A g \in DOMAIN games :
              games[g].score = 0 /\ games[g].found_words = << >>

\* with the empty word list, a path that keeps the four rules, of 9 cells
\* of the board of 16 letters, is answered "Not a valid English word"
C16_Witness ==
    /\ VALID_WORDS = {}
    /\ \E h \in DOMAIN thread :
          /\ Rejected(thread[h])
          /\ thread[h].body.error = NotAWordMsg
          /\ FourRules(thread[h].data.positions)
          /\ Len(thread[h].body.attempted_word) = 9
          /\ Cardinality({thread[h].body.attempted_word[i] :
                             i \in DOMAIN thread[h].body.attempted_word}) = 9

\* C17: no step takes an id out of the dict, and a game_state request or a
\* submitted path with an id of the dict is never answered "Invalid game
\* ID"; so an id that new_game has returned is known in every later state,
\* whatever was handled in between.
C17_IdsStayKnown ==
    [][ /\ DOMAIN games \subseteq DOMAIN games'
        /\ \A h \in DOMAIN thread :
              ( /\ Answers(h) \/ AnswersState(h)
                /\ "game_id" \in DOMAIN thread[h].data
                /\ thread[h].data.game_id \in DOMAIN games )
              => ~ ( /\ "error" \in DOMAIN thread'[h].body
                     /\ thread'[h].body.error = InvalidGameIdMsg )
      ]_vars

\* game_state of a game without found words is answered 200 while the other
\* id has been handed out as well and its game has found two words
C17_Witness ==
    \E h \in DOMAIN thread :
        /\ thread[h].pc = "response"
        /\ thread[h].route = "game_state"
        /\ thread[h].status = 200
        /\ thread[h].body.found_words = << >>
        /\ DOMAIN games = GameIds
        /\ \E g \in DOMAIN games \ {thread[h].data.game_id} :
              Len(games[g].found_words) = 2

\* C18: validate_word returns the attempted word of every path, valid or
\* not: the small letters of the board at the positions of the path that are
\* on the board, in the order of the path, the positions off the board left
\* out; it has as many letters as the path has positions on the board.
C18_AttemptedWordIsLettersAlongPath ==
    \A h \in DOMAIN thread :
        thread[h].pc = "verdict" =>
            LET p == thread[h].positions
                board == games[thread[h].game_id].board
                word == thread[h].result[3]
            IN  /\ word = LettersAlong(board, p)
                /\ Len(word) =
                      Cardinality({i \in DOMAIN p :
                                      p[i][1] \in 0 .. 3 /\ p[i][2] \in 0 .. 3})

\* the path (0,0), (-1,4), (3,3), which leaves the board and jumps, is
\* rejected as an invalid path and its attempted word is "ap", the letters
\* of its first and third positions
C18_Witness ==
    \E h \in DOMAIN thread :
        /\ thread[h].pc = "verdict"
        /\ thread[h].positions = << <<0, 0>>, <<-1, 4>>, <<3, 3>> >>
        /\ thread[h].result[1] = FALSE
        /\ thread[h].result[2] = InvalidPathMsg
        /\ thread[h].result[3] = <<"a", "p">>
        /\ games[thread[h].game_id].board[0][0] = "A"
        /\ games[thread[h].game_id].board[3][3] = "P"

\* C19: the attempted word of a path that is_valid_path accepts has as many
\* letters as the path has positions, which are at least 3; no path, valid
\* or not, is given the reason "Word must be at least 3 letters".
C19_TooShortReasonNeverGiven ==
    \A h \in DOMAIN thread :
        thread[h].pc = "verdict" =>
            /\ thread[h].valid =>
                  /\ Len(thread[h].result[3]) = Len(thread[h].positions)
                  /\ Len(thread[h].positions) >= 3
            /\ thread[h].result[2] # WordTooShortMsg

\* a path of three positions with a diagonal step back is accepted by
\* is_valid_path and passes the length test of validate_word: its word of
\* 3 letters is looked up in the word list
C19_Witness ==
    \E h \in DOMAIN thread :
        /\ thread[h].pc = "verdict"
        /\ thread[h].positions = << <<1, 1>>, <<0, 0>>, <<0, 1>> >>
        /\ thread[h].valid
        /\ Len(thread[h].result[3]) = 3
        /\ thread[h].result[2] = NotAWordMsg

\* the paths that a client submits and that keep the four rules; one of
\* them spells the word on the board
RulePaths == {p \in Paths : FourRules(p)}

SpelledOnBoard(word, board) ==
    \E p \in RulePaths : Len(p) = Len(word) /\ LettersAlong(board, p) = word

\* C20: with one request handled at a time, every word of the found_words
\* of a game is in the word list, has 3 to 16 letters, and is spelled on the
\* board of the game by a path that keeps the four rules; the list is never
\* longer than the score is high.
C20_FoundWordsAreValidWords ==
    \A g \in DOMAIN games :
        /\ \A i \in DOMAIN games[g].found_words :
              LET word == games[g].found_words[i]
              IN  /\ word \in VALID_WORDS
                  /\ Len(word) >= 3
                  /\ Len(word) <= 16
                  /\ SpelledOnBoard(word, games[g].board)
        /\ Len(games[g].found_words) <= games[g].score

\* a game on the board of one letter has found the two words of the word
\* list, of 3 and 4 letters, each spelled by many paths, and has score 2
C20_Witness ==
    \E g \in DOMAIN games :
        /\ Cardinality({games[g].board[r][c] : r, c \in 0 .. 3}) = 1
        /\ Len(games[g].found_words) = 2
        /\ {Len(games[g].found_words[i]) : i \in {1, 2}} = {3, 4}
        /\ games[g].score = 2
        /\ \A i \in {1, 2} : games[g].found_words[i] \in VALID_WORDS

====
